---- MODULE Spec2Model ----
(***************************************************************************)
(* Model of sk-buffer: sk::circular_buffer (circular_buffer.hxx) and       *)
(* sk::dynamic_buffer (dynamic_buffer.hxx).                                *)
(*                                                                         *)
(* Storage positions are 0-based offsets from data.begin(); data.end() is  *)
(* the offset data.size().  A span is a record [from, to) of offsets.      *)
(* Units are natural numbers: unit k is the k-th unit ever accepted by the *)
(* buffer, 0 is the value of storage that was never written.               *)
(*                                                                         *)
(* written and consumed are history variables: the units the buffer has    *)
(* accepted, and the units it has handed out or dropped, in call order.    *)
(* last records the most recent call: its argument, its return value, the  *)
(* units it copied out and the state it was made in.  view is what a       *)
(* caller holds of the last readable_ranges() result since the last read,  *)
(* discard or clear: the spans and the units seen in them.                 *)
(***************************************************************************)
EXTENDS Integers, Sequences, FiniteSets, TLC

VARIABLES buffer_size, data, read_pointer, write_pointer,
          extent_size, extents, ext_write_pointer,
          written, consumed, last, view

cb_vars == <<buffer_size, data, read_pointer, write_pointer>>
db_vars == <<extent_size, extents, ext_write_pointer>>
vars == <<buffer_size, data, read_pointer, write_pointer,
          extent_size, extents, ext_write_pointer,
          written, consumed, last, view>>

(* Bounds of the model. *)
MaxBufferSize == 8
MaxExtentSize == 4
MaxLen == 7
MaxUnits == 11
MaxDbLen == 10
MaxDbUnits == 14
MaxViewBufferSize == 5

Min(a, b) == IF a <= b THEN a ELSE b

(* The units a caller offers next: fresh unit numbers, in order. *)
Source(len) == [i \in 1..len |-> Len(written) + i]

Prefix(s, n) == SubSeq(s, 1, n)
Drop(s, n) == SubSeq(s, n + 1, Len(s))

span_size(span) == span.to - span.from

RECURSIVE ranges_size(_)
ranges_size(ranges) ==
    IF ranges = <<>> THEN 0
    ELSE span_size(Head(ranges)) + ranges_size(Tail(ranges))

(* The storage offsets of a list of spans, in order. *)
RECURSIVE ranges_offsets(_)
ranges_offsets(ranges) ==
    IF ranges = <<>> THEN <<>>
    ELSE [i \in 1..span_size(Head(ranges)) |-> Head(ranges).from + i - 1]
         \o ranges_offsets(Tail(ranges))

NoCall == [op |-> "none", n |-> 0, ret |-> 0, out |-> <<>>,
           pre_read |-> 0, pre_write |-> 0, pre_written |-> 0,
           pre_consumed |-> 0, pre_space |-> 0, assert_ok |-> TRUE, iters |-> 0]

(* extent_size is 0 exactly when the object is a circular_buffer. *)
is_circular == extent_size = 0

NoView == [valid |-> FALSE, spans |-> <<>>, units |-> <<>>]

(* The number of accepted units not yet handed out or dropped. *)
unread == Len(written) - Len(consumed)

(* The same number in the state the last call was made in. *)
pre_unread == last.pre_written - last.pre_consumed

(***************************************************************************)
(* circular_buffer                                                         *)
(***************************************************************************)

(* data.size(): the array holds buffer_size + 1 objects. *)
array_size == buffer_size + 1

(* writable_ranges() that stops at the end of the array. *)
writable_ranges_no_second_span(rp, wp) ==
    LET first == rp <= wp
        wend == IF rp = 0 THEN array_size - 1 ELSE array_size
        span1 == [from |-> wp, to |-> wp + (wend - wp)]
        span2 == [from |-> wp, to |-> rp - 1]
    IN  IF first
            THEN IF span_size(span1) # 0 THEN <<span1>> ELSE <<>>
            ELSE IF span_size(span2) # 0 THEN <<span2>> ELSE <<>>

(* writable_ranges() that also returns the spans that are empty. *)
writable_ranges_keeps_empty(rp, wp) ==
    LET first == rp <= wp
        wend == IF rp = 0 THEN array_size - 1 ELSE array_size
        span1 == [from |-> wp, to |-> wp + (wend - wp)]
        ret1 == IF first THEN <<span1>> ELSE <<>>
        twp1 == IF first THEN wp + span_size(span1) ELSE wp
        twp == IF first /\ twp1 = array_size /\ rp # 0 THEN 0 ELSE twp1
        span2 == [from |-> twp, to |-> rp - 1]
    IN  IF rp > twp
            THEN Append(ret1, span2)
            ELSE ret1

(* writable_ranges() without the slot kept free when the read pointer is   *)
(* at the start of the array.                                              *)
writable_ranges_no_free_slot(rp, wp) ==
    LET first == rp <= wp
        wend == array_size
        span1 == [from |-> wp, to |-> wp + (wend - wp)]
        ret1 == IF first /\ span_size(span1) # 0 THEN <<span1>> ELSE <<>>
        twp1 == IF first THEN wp + span_size(span1) ELSE wp
        twp == IF first /\ twp1 = array_size /\ rp # 0 THEN 0 ELSE twp1
        span2 == [from |-> twp, to |-> rp - 1]
    IN  IF rp > twp /\ span_size(span2) # 0
            THEN Append(ret1, span2)
            ELSE ret1

(* writable_ranges() whose second span runs up to the read pointer. *)
writable_ranges_up_to_read(rp, wp) ==
    LET first == rp <= wp
        wend == IF rp = 0 THEN array_size - 1 ELSE array_size
        span1 == [from |-> wp, to |-> wp + (wend - wp)]
        ret1 == IF first /\ span_size(span1) # 0 THEN <<span1>> ELSE <<>>
        twp1 == IF first THEN wp + span_size(span1) ELSE wp
        twp == IF first /\ twp1 = array_size /\ rp # 0 THEN 0 ELSE twp1
        span2 == [from |-> twp, to |-> rp]
    IN  IF rp > twp /\ span_size(span2) # 0
            THEN Append(ret1, span2)
            ELSE ret1

(* circular_buffer::writable_ranges() *)
writable_ranges(rp, wp) ==
    LET first == rp <= wp
        wend == IF rp = 0 THEN array_size - 1 ELSE array_size
        span1 == [from |-> wp, to |-> wp + (wend - wp)]
        ret1 == IF first /\ span_size(span1) # 0 THEN <<span1>> ELSE <<>>
        twp1 == IF first THEN wp + span_size(span1) ELSE wp
        twp == IF first /\ twp1 = array_size /\ rp # 0 THEN 0 ELSE twp1
        span2 == [from |-> twp, to |-> rp - 1]
    IN  IF rp > twp /\ span_size(span2) # 0
            THEN Append(ret1, span2)
            ELSE ret1

(* commit() that leaves the write pointer at data.end(). *)
commit_no_wrap(rp, wp, n) ==
    LET first == rp <= wp
        wend == IF rp = 0 THEN array_size - 1 ELSE array_size
        can_write1 == IF first THEN Min(wend - wp, n) ELSE 0
        bytes_left == n - can_write1
        wp2 == wp + can_write1
        second == rp > wp2
        can_write2 == IF second THEN Min(rp - 0 - 1, bytes_left) ELSE 0
        wp3 == wp2 + can_write2
    IN  [write_pointer |-> wp3,
         ret |-> can_write1 + can_write2,
         assert_ok |-> second => wp3 < rp]

(* circular_buffer::commit() *)
commit(rp, wp, n) ==
    LET first == rp <= wp
        wend == IF rp = 0 THEN array_size - 1 ELSE array_size
        can_write1 == IF first THEN Min(wend - wp, n) ELSE 0
        bytes_left == n - can_write1
        wp1 == wp + can_write1
        wp2 == IF first /\ wp1 = array_size /\ rp # 0 THEN 0 ELSE wp1
        second == rp > wp2
        can_write2 == IF second THEN Min(rp - 0 - 1, bytes_left) ELSE 0
        wp3 == wp2 + can_write2
    IN  [write_pointer |-> wp3,
         ret |-> can_write1 + can_write2,
         assert_ok |-> second => wp3 < rp]

(* circular_buffer::write(): the loop over writable_ranges() *)
RECURSIVE write_copy(_, _, _, _)
write_copy(ranges, data_left, d, bytes_written) ==
    IF ranges = <<>> THEN [data |-> d, bytes_written |-> bytes_written]
    ELSE LET range == Head(ranges)
             can_write == Min(Len(data_left), span_size(range))
             d2 == [i \in DOMAIN d |->
                      IF i >= range.from /\ i < range.from + can_write
                          THEN data_left[i - range.from + 1]
                          ELSE d[i]]
             rest == Drop(data_left, can_write)
         IN  IF rest = <<>>
                 THEN [data |-> d2, bytes_written |-> bytes_written + can_write]
                 ELSE write_copy(Tail(ranges), rest, d2,
                                 bytes_written + can_write)

(* circular_buffer::write() *)
write(rp, wp, d, buf) ==
    LET w == write_copy(writable_ranges(rp, wp), buf, d, 0)
        c == commit(rp, wp, w.bytes_written)
    IN  [data |-> w.data, write_pointer |-> c.write_pointer,
         ret |-> w.bytes_written, assert_ok |-> c.assert_ok]

(* readable_ranges() that does not move on to the start of the array. *)
readable_ranges_no_wrap(rp, wp) ==
    IF rp = wp THEN <<>>
    ELSE
    LET first == rp > wp
        can_read1 == array_size - rp
        span1 == [from |-> rp, to |-> rp + can_read1]
        ret1 == IF first /\ span_size(span1) # 0 THEN <<span1>> ELSE <<>>
        trp == IF first THEN rp + can_read1 ELSE rp
        span2 == [from |-> trp, to |-> trp + (wp - trp)]
    IN  IF trp < wp /\ span_size(span2) # 0
            THEN Append(ret1, span2)
            ELSE ret1

(* circular_buffer::readable_ranges() *)
readable_ranges(rp, wp) ==
    IF rp = wp THEN <<>>
    ELSE
    LET first == rp > wp
        can_read1 == array_size - rp
        span1 == [from |-> rp, to |-> rp + can_read1]
        ret1 == IF first /\ span_size(span1) # 0 THEN <<span1>> ELSE <<>>
        trp1 == IF first THEN rp + can_read1 ELSE rp
        trp == IF first /\ trp1 = array_size THEN 0 ELSE trp1
        span2 == [from |-> trp, to |-> trp + (wp - trp)]
    IN  IF trp < wp /\ span_size(span2) # 0
            THEN Append(ret1, span2)
            ELSE ret1

(* readable_ranges(): where theoretical_read_pointer stands at the final   *)
(* assertion (rp # wp).                                                    *)
readable_ranges_end(rp, wp) ==
    LET first == rp > wp
        trp1 == IF first THEN rp + (array_size - rp) ELSE rp
        trp == IF first /\ trp1 = array_size THEN 0 ELSE trp1
    IN  IF trp < wp THEN trp + (wp - trp) ELSE trp

(* discard() that leaves read_pointer at data.end() when it gets there. *)
discard_no_wrap(rp, wp, n) ==
    IF rp = wp THEN [read_pointer |-> rp, ret |-> 0, assert_ok |-> TRUE]
    ELSE
    LET first == rp > wp
        can_read1 == IF first THEN Min(n, array_size - rp) ELSE 0
        bytes_left == n - can_read1
        rp1 == rp + can_read1
        second == rp1 < wp
        can_read2 == IF second THEN Min(bytes_left, wp - rp1) ELSE 0
        rp3 == rp1 + can_read2
    IN  [read_pointer |-> rp3,
         ret |-> can_read1 + can_read2,
         assert_ok |-> rp3 < array_size]

(* discard() whose second step takes up to n again, not what is left. *)
discard_no_bytes_left(rp, wp, n) ==
    IF rp = wp THEN [read_pointer |-> rp, ret |-> 0, assert_ok |-> TRUE]
    ELSE
    LET first == rp > wp
        can_read1 == IF first THEN Min(n, array_size - rp) ELSE 0
        rp1 == rp + can_read1
        rp2 == IF first /\ rp1 = array_size THEN 0 ELSE rp1
        second == rp2 < wp
        can_read2 == IF second THEN Min(n, wp - rp2) ELSE 0
        rp3 == rp2 + can_read2
    IN  [read_pointer |-> rp3,
         ret |-> can_read1 + can_read2,
         assert_ok |-> rp3 < array_size]

(* circular_buffer::discard() *)
discard(rp, wp, n) ==
    IF rp = wp THEN [read_pointer |-> rp, ret |-> 0, assert_ok |-> TRUE]
    ELSE
    LET first == rp > wp
        can_read1 == IF first THEN Min(n, array_size - rp) ELSE 0
        bytes_left == n - can_read1
        rp1 == rp + can_read1
        rp2 == IF first /\ rp1 = array_size THEN 0 ELSE rp1
        second == rp2 < wp
        can_read2 == IF second THEN Min(bytes_left, wp - rp2) ELSE 0
        rp3 == rp2 + can_read2
    IN  [read_pointer |-> rp3,
         ret |-> can_read1 + can_read2,
         assert_ok |-> rp3 < array_size]

(* circular_buffer::read(): the loop over readable_ranges() *)
RECURSIVE read_copy(_, _, _, _)
read_copy(ranges, left, d, out) ==
    IF ranges = <<>> THEN out
    ELSE LET range == Head(ranges)
             can_read == Min(left, span_size(range))
             out2 == out \o [i \in 1..can_read |-> d[range.from + i - 1]]
         IN  IF left - can_read = 0
                 THEN out2
                 ELSE read_copy(Tail(ranges), left - can_read, d, out2)

(* circular_buffer::read() with a destination of len objects *)
read(rp, wp, d, len) ==
    LET out == read_copy(readable_ranges(rp, wp), len, d, <<>>)
        dis == discard(rp, wp, Len(out))
    IN  [out |-> out, read_pointer |-> dis.read_pointer,
         ret |-> Len(out), assert_ok |-> dis.assert_ok]

(* The unread units, front to back, as readable_ranges() exposes them. *)
cb_contents ==
    LET offs == ranges_offsets(readable_ranges(read_pointer, write_pointer))
    IN  [i \in 1..Len(offs) |-> data[offs[i]]]

cb_writable == ranges_size(writable_ranges(read_pointer, write_pointer))

CbCall(op, n, ret, out, ok) ==
    [op |-> op, n |-> n, ret |-> ret, out |-> out,
     pre_read |-> read_pointer, pre_write |-> write_pointer,
     pre_written |-> Len(written), pre_consumed |-> Len(consumed),
     pre_space |-> cb_writable, assert_ok |-> ok, iters |-> 0]

(* circular_buffer(): both pointers at data.begin(). *)
CbInit ==
    /\ buffer_size \in 0..MaxBufferSize
    /\ data = [i \in 0..buffer_size |-> 0]
    /\ read_pointer = 0
    /\ write_pointer = 0
    /\ extent_size = 0
    /\ extents = <<>>
    /\ ext_write_pointer = 0
    /\ written = <<>>
    /\ consumed = <<>>
    /\ last = NoCall
    /\ view = NoView

CbWrite ==
    \E len \in 0..MaxLen :
        LET w == write(read_pointer, write_pointer, data, Source(len))
        IN  /\ last.assert_ok
            /\ Len(written) + w.ret <= MaxUnits
            /\ data' = w.data
            /\ write_pointer' = w.write_pointer
            /\ written' = written \o Prefix(Source(len), w.ret)
            /\ last' = CbCall("write", len, w.ret, <<>>, w.assert_ok)
            /\ UNCHANGED <<buffer_size, read_pointer, consumed, db_vars, view>>

CbRead ==
    \E len \in 0..MaxLen :
        LET r == read(read_pointer, write_pointer, data, len)
        IN  /\ last.assert_ok
            /\ read_pointer' = r.read_pointer
            /\ consumed' = consumed \o r.out
            /\ last' = CbCall("read", len, r.ret, r.out, r.assert_ok)
            /\ view' = NoView
            /\ UNCHANGED <<buffer_size, data, write_pointer, written, db_vars>>

CbDiscard ==
    \E n \in 0..MaxLen :
        LET dis == discard(read_pointer, write_pointer, n)
            dropped == Prefix(cb_contents, Min(dis.ret, Len(cb_contents)))
        IN  /\ last.assert_ok
            /\ read_pointer' = dis.read_pointer
            /\ consumed' = consumed \o dropped
            /\ last' = CbCall("discard", n, dis.ret, dropped, dis.assert_ok)
            /\ view' = NoView
            /\ UNCHANGED <<buffer_size, data, write_pointer, written, db_vars>>

(* The caller fills the front of writable_ranges() and calls commit(n). *)
CbFillCommit(n) ==
    LET w == write_copy(writable_ranges(read_pointer, write_pointer),
                        Source(Min(n, cb_writable)), data, 0)
        c == commit(read_pointer, write_pointer, n)
    IN  /\ last.assert_ok
        /\ Len(written) + c.ret <= MaxUnits
        /\ data' = w.data
        /\ write_pointer' = c.write_pointer
        /\ written' = written \o Source(c.ret)
        /\ last' = CbCall("commit", n, c.ret, <<>>, c.assert_ok)
        /\ UNCHANGED <<buffer_size, read_pointer, consumed, db_vars, view>>

(* commit(n) within the space writable_ranges() offered *)
CbCommit ==
    \E n \in 0..MaxLen : n <= cb_writable /\ CbFillCommit(n)

(* commit(n) for any n *)
CbCommitAny ==
    \E n \in 0..MaxLen : CbFillCommit(n)

(* clear() that resets the read pointer only. *)
CbClear_read_pointer_only ==
    /\ last.assert_ok
    /\ read_pointer' = 0
    /\ consumed' = written
    /\ last' = CbCall("clear", 0, 0, <<>>, TRUE)
    /\ view' = NoView
    /\ UNCHANGED <<buffer_size, data, write_pointer, written, db_vars>>

(* circular_buffer::clear(): what was unread is dropped. *)
CbClear ==
    /\ last.assert_ok
    /\ read_pointer' = 0
    /\ write_pointer' = 0
    /\ consumed' = written
    /\ last' = CbCall("clear", 0, 0, <<>>, TRUE)
    /\ view' = NoView
    /\ UNCHANGED <<buffer_size, data, written, db_vars>>

(* readable_ranges(): the caller keeps the spans and what they hold. *)
CbReadableRanges ==
    LET ranges == readable_ranges(read_pointer, write_pointer)
    IN  /\ last.assert_ok
        /\ view' = [valid |-> TRUE, spans |-> ranges, units |-> cb_contents]
        /\ last' = CbCall("readable_ranges", 0, Len(ranges), <<>>,
                          read_pointer = write_pointer
                              \/ readable_ranges_end(read_pointer,
                                                     write_pointer)
                                     < array_size)
        /\ UNCHANGED <<cb_vars, db_vars, written, consumed>>

CbNext == CbWrite \/ CbRead \/ CbDiscard \/ CbCommit \/ CbClear

Spec == CbInit /\ [][CbNext]_vars

CbAnyNext == CbWrite \/ CbRead \/ CbDiscard \/ CbCommitAny \/ CbClear

SpecCommitAny == CbInit /\ [][CbAnyNext]_vars

(***************************************************************************)
(* fixed_buffer: one extent of a dynamic_buffer.  A contiguous array of    *)
(* extent_size objects that does not wrap: read_window is [rd, wr), and    *)
(* write_window is [wr, extent_size).                                      *)
(***************************************************************************)

fixed_buffer == [cells |-> [i \in 1..extent_size |-> 0], rd |-> 0, wr |-> 0]

write_window_size(ext) == extent_size - ext.wr

read_window_size(ext) == ext.wr - ext.rd

read_window(ext) == SubSeq(ext.cells, ext.rd + 1, ext.wr)

(* fixed_buffer::write(): copy what fits into write_window and commit it. *)
fb_write(ext, buf) ==
    LET n == Min(Len(buf), write_window_size(ext))
    IN  [ext |-> [ext EXCEPT
                    !.cells = [i \in 1..extent_size |->
                                 IF i > ext.wr /\ i <= ext.wr + n
                                     THEN buf[i - ext.wr]
                                     ELSE ext.cells[i]],
                    !.wr = ext.wr + n],
         n |-> n]

(* fixed_buffer::commit() *)
fb_commit(ext, n) ==
    LET m == Min(n, write_window_size(ext))
    IN  [ext |-> [ext EXCEPT !.wr = ext.wr + m], n |-> m]

(* fixed_buffer::discard() *)
fb_discard(ext, n) ==
    LET m == Min(n, read_window_size(ext))
    IN  [ext |-> [ext EXCEPT !.rd = ext.rd + m], n |-> m]

(* fixed_buffer::read() into a destination of len objects *)
fb_read(ext, len) ==
    LET m == Min(len, read_window_size(ext))
    IN  [ext |-> [ext EXCEPT !.rd = ext.rd + m],
         out |-> SubSeq(ext.cells, ext.rd + 1, ext.rd + m),
         n |-> m]

(***************************************************************************)
(* dynamic_buffer.  extents is the deque, front first; ext_write_pointer   *)
(* is the member write_pointer, a 0-based index into it.  Each operation   *)
(* yields the new deque and index, its return value, and whether every     *)
(* assertion it evaluated held; an operation goes on past a failed         *)
(* assertion as a build without assertions does.                           *)
(***************************************************************************)

minfree == extent_size \div 2

ext_at(exts, i) == exts[i + 1]

(* ensure_minfree() that adds an extent whatever room the back one has. *)
ensure_minfree_always_append(exts, wp) ==
    LET exts2 == Append(exts, fixed_buffer)
    IN  [extents |-> exts2,
         write_pointer |->
             IF write_window_size(ext_at(exts2, wp)) = 0
                 THEN wp + 1
                 ELSE wp]

(* ensure_minfree() that moves write_pointer on whenever it adds an extent. *)
ensure_minfree_always_advance(exts, wp) ==
    IF exts = <<>> \/ write_window_size(exts[Len(exts)]) < minfree
        THEN [extents |-> Append(exts, fixed_buffer),
              write_pointer |-> IF exts = <<>> THEN wp ELSE wp + 1]
        ELSE [extents |-> exts, write_pointer |-> wp]

(* dynamic_buffer::ensure_minfree() *)
ensure_minfree(exts, wp) ==
    IF exts = <<>> \/ write_window_size(exts[Len(exts)]) < minfree
        THEN LET exts2 == Append(exts, fixed_buffer)
             IN  [extents |-> exts2,
                  write_pointer |->
                      IF write_window_size(ext_at(exts2, wp)) = 0
                          THEN wp + 1
                          ELSE wp]
        ELSE [extents |-> exts, write_pointer |-> wp]

(* remove_front() that leaves write_pointer as it was. *)
remove_front_no_decrement(exts, wp) ==
    [extents |-> Tail(exts),
     write_pointer |-> wp,
     assert_ok |-> /\ exts # <<>>
                   /\ (wp > 0 \/ write_window_size(Head(exts)) = 0)]

(* dynamic_buffer::remove_front() *)
remove_front(exts, wp) ==
    [extents |-> Tail(exts),
     write_pointer |-> IF wp > 0 THEN wp - 1 ELSE wp,
     assert_ok |-> /\ exts # <<>>
                   /\ (wp > 0 \/ write_window_size(Head(exts)) = 0)]

(* dynamic_buffer::writable_ranges(): the spans are (extent index, from,   *)
(* to) over the cells of that extent.                                      *)
db_writable_ranges(exts0, wp0) ==
    LET em == ensure_minfree(exts0, wp0)
        exts == em.extents
        wp == em.write_pointer
        idx == wp..(Len(exts) - 1)
    IN  [extents |-> exts,
         write_pointer |-> wp,
         ret |-> [k \in 1..(Len(exts) - wp) |->
                    [extent |-> wp + k - 1,
                     from |-> ext_at(exts, wp + k - 1).wr,
                     to |-> extent_size]],
         assert_ok |->
             /\ wp < Len(exts)
             /\ \A i \in idx : write_window_size(ext_at(exts, i)) > 0
             /\ \A i \in idx :
                   i = wp \/ write_window_size(ext_at(exts, i)) = extent_size]

(* One more pass through the for (;;) loop of an operation: iters counts   *)
(* the passes, the one that returns included.                              *)
again(r) == [r EXCEPT !.iters = @ + 1]

(* dynamic_buffer::commit(): the loop *)
RECURSIVE db_commit_loop(_, _, _, _, _)
db_commit_loop(exts, wp, left, n, ok) ==
    IF wp >= Len(exts)
        THEN [extents |-> exts, write_pointer |-> wp, ret |-> n - left,
              assert_ok |-> FALSE, iters |-> 1]
    ELSE LET c == fb_commit(ext_at(exts, wp), left)
             exts2 == [exts EXCEPT ![wp + 1] = c.ext]
             ok2 == ok /\ c.n > 0
         IN  IF left - c.n = 0
                 THEN LET em == ensure_minfree(exts2, wp)
                      IN  [extents |-> em.extents,
                           write_pointer |-> em.write_pointer,
                           ret |-> n, assert_ok |-> ok2, iters |-> 1]
                 ELSE again(db_commit_loop(exts2, wp + 1, left - c.n, n, ok2))

(* dynamic_buffer::commit() *)
db_commit(exts, wp, n) ==
    IF n = 0
        THEN [extents |-> exts, write_pointer |-> wp, ret |-> 0,
              assert_ok |-> TRUE, iters |-> 0]
        ELSE db_commit_loop(exts, wp, n, n, wp < Len(exts))

(* The write loop that stops at the end of the deque instead of adding an  *)
(* extent.                                                                 *)
RECURSIVE db_write_loop_no_growth(_, _, _, _)
db_write_loop_no_growth(exts, wp, buf, size) ==
    IF wp = Len(exts) /\ exts # <<>>
        THEN [extents |-> exts, write_pointer |-> wp - 1,
              ret |-> size - Len(buf), iters |-> 1]
    ELSE
    LET exts1 == IF wp = Len(exts) THEN Append(exts, fixed_buffer) ELSE exts
        w == fb_write(ext_at(exts1, wp), buf)
        exts2 == [exts1 EXCEPT ![wp + 1] = w.ext]
        rest == Drop(buf, w.n)
    IN  IF Len(rest) = 0
            THEN LET em == ensure_minfree(exts2, wp)
                 IN  [extents |-> em.extents,
                      write_pointer |-> em.write_pointer,
                      ret |-> size, iters |-> 1]
            ELSE again(db_write_loop_no_growth(exts2, wp + 1, rest, size))

(* dynamic_buffer::write(): the loop *)
RECURSIVE db_write_loop(_, _, _, _)
db_write_loop(exts, wp, buf, size) ==
    LET exts1 == IF wp = Len(exts) THEN Append(exts, fixed_buffer) ELSE exts
        w == fb_write(ext_at(exts1, wp), buf)
        exts2 == [exts1 EXCEPT ![wp + 1] = w.ext]
        rest == Drop(buf, w.n)
    IN  IF Len(rest) = 0
            THEN LET em == ensure_minfree(exts2, wp)
                 IN  [extents |-> em.extents,
                      write_pointer |-> em.write_pointer,
                      ret |-> size, iters |-> 1]
            ELSE again(db_write_loop(exts2, wp + 1, rest, size))

(* write() without the early return for an empty source. *)
db_write_no_empty_check(exts, wp, buf) ==
    LET w == db_write_loop(exts, wp, buf, Len(buf))
    IN  [extents |-> w.extents, write_pointer |-> w.write_pointer,
         ret |-> w.ret, assert_ok |-> wp <= Len(exts), iters |-> w.iters]

(* write() that moves on through the extents without storing the index of *)
(* the extent it reached.                                                  *)
db_write_keeps_write_pointer(exts, wp, buf) ==
    IF Len(buf) = 0
        THEN [extents |-> exts, write_pointer |-> wp, ret |-> 0,
              assert_ok |-> TRUE, iters |-> 0]
        ELSE LET w == db_write_loop(exts, wp, buf, Len(buf))
             IN  [extents |-> w.extents, write_pointer |-> wp,
                  ret |-> w.ret, assert_ok |-> wp <= Len(exts),
                  iters |-> w.iters]

(* dynamic_buffer::write() *)
db_write(exts, wp, buf) ==
    IF Len(buf) = 0
        THEN [extents |-> exts, write_pointer |-> wp, ret |-> 0,
              assert_ok |-> TRUE, iters |-> 0]
        ELSE LET w == db_write_loop(exts, wp, buf, Len(buf))
             IN  [extents |-> w.extents, write_pointer |-> w.write_pointer,
                  ret |-> w.ret, assert_ok |-> wp <= Len(exts),
                  iters |-> w.iters]

(* readable_ranges() that does not skip the extents with nothing to read. *)
RECURSIVE db_readable_ranges_no_skip(_)
db_readable_ranges_no_skip(exts) ==
    IF exts = <<>> THEN <<>>
    ELSE <<read_window(Head(exts))>> \o db_readable_ranges_no_skip(Tail(exts))

(* dynamic_buffer::readable_ranges(): the read windows, front to back. *)
RECURSIVE db_readable_ranges(_)
db_readable_ranges(exts) ==
    IF exts = <<>> THEN <<>>
    ELSE IF read_window_size(Head(exts)) = 0
        THEN db_readable_ranges(Tail(exts))
        ELSE <<read_window(Head(exts))>> \o db_readable_ranges(Tail(exts))

(* The discard loop that asks every extent for n, not for what is left. *)
RECURSIVE db_discard_loop_no_nleft(_, _, _, _, _, _)
db_discard_loop_no_nleft(exts, wp, nleft, n, dropped, ok) ==
    IF exts = <<>> \/ read_window_size(Head(exts)) = 0
        THEN [extents |-> exts, write_pointer |-> wp, ret |-> Len(dropped),
              out |-> dropped, assert_ok |-> ok, iters |-> 1]
    ELSE LET front == fb_discard(Head(exts), n)
             dropped2 == dropped \o Prefix(read_window(Head(exts)), front.n)
             exts1 == [exts EXCEPT ![1] = front.ext]
             dead == /\ read_window_size(front.ext) = 0
                     /\ write_window_size(front.ext) = 0
             rf == remove_front(exts1, wp)
             exts2 == IF dead THEN rf.extents ELSE exts1
             wp2 == IF dead THEN rf.write_pointer ELSE wp
             ok2 == ok /\ (dead => rf.assert_ok)
         IN  IF Len(dropped2) = n
                 THEN [extents |-> exts2, write_pointer |-> wp2,
                       ret |-> Len(dropped2), out |-> dropped2,
                       assert_ok |-> ok2, iters |-> 1]
                 ELSE again(db_discard_loop_no_nleft(exts2, wp2, nleft - front.n, n,
                                               dropped2, ok2))

(* The discard loop that leaves a dead front extent in the deque. *)
RECURSIVE db_discard_loop_keeps_dead(_, _, _, _, _, _)
db_discard_loop_keeps_dead(exts, wp, nleft, n, dropped, ok) ==
    IF exts = <<>> \/ read_window_size(Head(exts)) = 0
        THEN [extents |-> exts, write_pointer |-> wp, ret |-> Len(dropped),
              out |-> dropped, assert_ok |-> ok, iters |-> 1]
    ELSE LET front == fb_discard(Head(exts), nleft)
             dropped2 == dropped \o Prefix(read_window(Head(exts)), front.n)
             exts1 == [exts EXCEPT ![1] = front.ext]
         IN  IF Len(dropped2) = n
                 THEN [extents |-> exts1, write_pointer |-> wp,
                       ret |-> Len(dropped2), out |-> dropped2,
                       assert_ok |-> ok, iters |-> 1]
                 ELSE again(db_discard_loop_keeps_dead(exts1, wp, nleft - front.n,
                                                 n, dropped2, ok))

(* dynamic_buffer::discard(): the loop.  dropped collects the units the    *)
(* call removed.                                                           *)
RECURSIVE db_discard_loop(_, _, _, _, _, _)
db_discard_loop(exts, wp, nleft, n, dropped, ok) ==
    IF exts = <<>> \/ read_window_size(Head(exts)) = 0
        THEN [extents |-> exts, write_pointer |-> wp, ret |-> Len(dropped),
              out |-> dropped, assert_ok |-> ok, iters |-> 1]
    ELSE LET front == fb_discard(Head(exts), nleft)
             dropped2 == dropped \o Prefix(read_window(Head(exts)), front.n)
             exts1 == [exts EXCEPT ![1] = front.ext]
             dead == /\ read_window_size(front.ext) = 0
                     /\ write_window_size(front.ext) = 0
             rf == remove_front(exts1, wp)
             exts2 == IF dead THEN rf.extents ELSE exts1
             wp2 == IF dead THEN rf.write_pointer ELSE wp
             ok2 == ok /\ (dead => rf.assert_ok)
         IN  IF Len(dropped2) = n
                 THEN [extents |-> exts2, write_pointer |-> wp2,
                       ret |-> Len(dropped2), out |-> dropped2,
                       assert_ok |-> ok2, iters |-> 1]
                 ELSE again(db_discard_loop(exts2, wp2, nleft - front.n, n,
                                      dropped2, ok2))

(* dynamic_buffer::discard() *)
db_discard(exts, wp, n) == db_discard_loop(exts, wp, n, n, <<>>, TRUE)

(* The read loop that returns after the front extent. *)
RECURSIVE db_read_loop_front_only(_, _, _, _, _, _)
db_read_loop_front_only(exts, wp, left, size, out, ok) ==
    IF exts = <<>> \/ read_window_size(Head(exts)) = 0
        THEN [extents |-> exts, write_pointer |-> wp, ret |-> Len(out),
              out |-> out, assert_ok |-> ok, iters |-> 1]
    ELSE LET front == fb_read(Head(exts), left)
             out2 == out \o front.out
             exts1 == [exts EXCEPT ![1] = front.ext]
             dead == /\ read_window_size(front.ext) = 0
                     /\ write_window_size(front.ext) = 0
             rf == remove_front(exts1, wp)
             exts2 == IF dead THEN rf.extents ELSE exts1
             wp2 == IF dead THEN rf.write_pointer ELSE wp
             ok2 == ok /\ (dead => rf.assert_ok)
         IN  [extents |-> exts2, write_pointer |-> wp2,
              ret |-> Len(out2), out |-> out2, assert_ok |-> ok2, iters |-> 1]

(* dynamic_buffer::read(): the loop *)
RECURSIVE db_read_loop(_, _, _, _, _, _)
db_read_loop(exts, wp, left, size, out, ok) ==
    IF exts = <<>> \/ read_window_size(Head(exts)) = 0
        THEN [extents |-> exts, write_pointer |-> wp, ret |-> Len(out),
              out |-> out, assert_ok |-> ok, iters |-> 1]
    ELSE LET front == fb_read(Head(exts), left)
             out2 == out \o front.out
             exts1 == [exts EXCEPT ![1] = front.ext]
             dead == /\ read_window_size(front.ext) = 0
                     /\ write_window_size(front.ext) = 0
             rf == remove_front(exts1, wp)
             exts2 == IF dead THEN rf.extents ELSE exts1
             wp2 == IF dead THEN rf.write_pointer ELSE wp
             ok2 == ok /\ (dead => rf.assert_ok)
         IN  IF Len(out2) = size
                 THEN [extents |-> exts2, write_pointer |-> wp2,
                       ret |-> Len(out2), out |-> out2, assert_ok |-> ok2,
                       iters |-> 1]
                 ELSE again(db_read_loop(exts2, wp2, left - front.n, size,
                                   out2, ok2))

(* dynamic_buffer::read() into a destination of len objects *)
db_read(exts, wp, len) ==
    IF len = 0
        THEN [extents |-> exts, write_pointer |-> wp, ret |-> 0,
              out |-> <<>>, assert_ok |-> TRUE, iters |-> 0]
        ELSE db_read_loop(exts, wp, len, len, <<>>, TRUE)

(* dynamic_buffer::readable_ranges(): the spans, as (index of the extent   *)
(* counted from position first, from, to) over the cells of that extent.   *)
RECURSIVE db_readable_spans(_, _)
db_readable_spans(exts, first) ==
    IF exts = <<>> THEN <<>>
    ELSE IF read_window_size(Head(exts)) = 0
        THEN db_readable_spans(Tail(exts), first + 1)
        ELSE <<[extent |-> first, from |-> Head(exts).rd,
                to |-> Head(exts).wr]>>
             \o db_readable_spans(Tail(exts), first + 1)

(* The (extent, cell) positions of a list of such spans, in order. *)
RECURSIVE db_spans_offsets(_)
db_spans_offsets(spans) ==
    IF spans = <<>> THEN <<>>
    ELSE [i \in 1..span_size(Head(spans)) |->
             <<Head(spans).extent, Head(spans).from + i>>]
         \o db_spans_offsets(Tail(spans))

RECURSIVE concat(_)
concat(seqs) ==
    IF seqs = <<>> THEN <<>> ELSE Head(seqs) \o concat(Tail(seqs))

(* The unread units, front to back, as readable_ranges() exposes them. *)
db_contents == concat(db_readable_ranges(extents))

(* The writable capacity of the extents from write_pointer to the back. *)
RECURSIVE db_space_from(_, _)
db_space_from(exts, i) ==
    IF i >= Len(exts) THEN 0
    ELSE write_window_size(ext_at(exts, i)) + db_space_from(exts, i + 1)

db_space == db_space_from(extents, ext_write_pointer)

(* The caller stores buf in the write windows of the extents from index i  *)
(* on, front to back, without committing it.                               *)
RECURSIVE db_fill(_, _, _)
db_fill(exts, i, buf) ==
    IF i >= Len(exts) \/ buf = <<>> THEN exts
    ELSE LET ext == ext_at(exts, i)
             k == Min(Len(buf), write_window_size(ext))
             filled == [ext EXCEPT
                          !.cells = [j \in 1..extent_size |->
                                       IF j > ext.wr /\ j <= ext.wr + k
                                           THEN buf[j - ext.wr]
                                           ELSE ext.cells[j]]]
         IN  db_fill([exts EXCEPT ![i + 1] = filled], i + 1, Drop(buf, k))

DbCall(op, n, ret, out, ok) ==
    [op |-> op, n |-> n, ret |-> ret, out |-> out,
     pre_read |-> Len(extents), pre_write |-> ext_write_pointer,
     pre_written |-> Len(written), pre_consumed |-> Len(consumed),
     pre_space |-> db_space, assert_ok |-> ok, iters |-> 0]

(* dynamic_buffer(): no extents, write_pointer 0. *)
DbInit ==
    /\ extent_size \in 1..MaxExtentSize
    /\ extents = <<>>
    /\ ext_write_pointer = 0
    /\ buffer_size = 0
    /\ data = [i \in 0..0 |-> 0]
    /\ read_pointer = 0
    /\ write_pointer = 0
    /\ written = <<>>
    /\ consumed = <<>>
    /\ last = NoCall
    /\ view = NoView

DbWrite ==
    \E len \in 0..MaxDbLen :
        LET w == db_write(extents, ext_write_pointer, Source(len))
        IN  /\ Len(written) + len <= MaxDbUnits
            /\ extents' = w.extents
            /\ ext_write_pointer' = w.write_pointer
            /\ written' = written \o Prefix(Source(len), w.ret)
            /\ last' = [DbCall("write", len, w.ret, <<>>, w.assert_ok)
                         EXCEPT !.iters = w.iters]
            /\ UNCHANGED <<extent_size, consumed, cb_vars, view>>

DbRead ==
    \E len \in 0..MaxDbLen :
        LET r == db_read(extents, ext_write_pointer, len)
        IN  /\ extents' = r.extents
            /\ ext_write_pointer' = r.write_pointer
            /\ consumed' = consumed \o r.out
            /\ last' = [DbCall("read", len, r.ret, r.out, r.assert_ok)
                         EXCEPT !.iters = r.iters]
            /\ view' = NoView
            /\ UNCHANGED <<extent_size, written, cb_vars>>

DbDiscard ==
    \E n \in 0..MaxDbLen :
        LET dis == db_discard(extents, ext_write_pointer, n)
        IN  /\ extents' = dis.extents
            /\ ext_write_pointer' = dis.write_pointer
            /\ consumed' = consumed \o dis.out
            /\ last' = [DbCall("discard", n, dis.ret, dis.out, dis.assert_ok)
                         EXCEPT !.iters = dis.iters]
            /\ view' = NoView
            /\ UNCHANGED <<extent_size, written, cb_vars>>

(* writable_ranges() on its own: it may add an extent. *)
DbWritableRanges ==
    LET wr == db_writable_ranges(extents, ext_write_pointer)
    IN  /\ extents' = wr.extents
        /\ ext_write_pointer' = wr.write_pointer
        /\ last' = DbCall("writable_ranges", 0, Len(wr.ret), <<>>,
                          wr.assert_ok)
        /\ UNCHANGED <<extent_size, written, consumed, cb_vars, view>>

(* The caller fills the front of the write windows from write_pointer on   *)
(* and calls commit(n), n within the space those windows have.             *)
DbCommit ==
    \E n \in 0..MaxDbLen :
        LET filled == db_fill(extents, ext_write_pointer, Source(n))
            c == db_commit(filled, ext_write_pointer, n)
        IN  /\ n <= db_space
            /\ Len(written) + n <= MaxDbUnits
            /\ extents' = c.extents
            /\ ext_write_pointer' = c.write_pointer
            /\ written' = written \o Source(c.ret)
            /\ last' = [DbCall("commit", n, c.ret, <<>>, c.assert_ok)
                         EXCEPT !.iters = c.iters]
            /\ UNCHANGED <<extent_size, consumed, cb_vars, view>>

(* readable_ranges(): the caller keeps the spans and what they hold. *)
DbReadableRanges ==
    LET spans == db_readable_spans(extents, 0)
    IN  /\ view' = [valid |-> TRUE, spans |-> spans,
                    units |-> concat(db_readable_ranges(extents))]
        /\ last' = DbCall("readable_ranges", 0, Len(spans), <<>>, TRUE)
        /\ UNCHANGED <<cb_vars, db_vars, written, consumed>>

DbNext == DbWrite \/ DbRead \/ DbDiscard \/ DbWritableRanges \/ DbCommit

SpecDynamic == DbInit /\ [][DbNext]_vars

(***************************************************************************)
(* A program that constructs one buffer, of either type.  extent_size is   *)
(* 0 exactly when the buffer is a circular_buffer.                         *)
(***************************************************************************)

EitherInit == CbInit \/ DbInit

EitherNext == (extent_size = 0 /\ CbNext) \/ (extent_size > 0 /\ DbNext)

SpecEither == EitherInit /\ [][EitherNext]_vars

(***************************************************************************)
(* The same program, whose caller also calls readable_ranges() and holds   *)
(* on to the result.                                                       *)
(***************************************************************************)

ViewInit == EitherInit /\ buffer_size <= MaxViewBufferSize

ViewNext ==
    \/ extent_size = 0 /\ (CbNext \/ CbReadableRanges)
    \/ extent_size > 0 /\ (DbNext \/ DbReadableRanges)

SpecViews == ViewInit /\ [][ViewNext]_vars

(***************************************************************************)
(* Properties of circular_buffer                                           *)
(***************************************************************************)

(* The state the call was made in had the write pointer wrapped behind the *)
(* read pointer, with data on both sides of the end of storage.            *)
pre_wrapped == last.pre_read > last.pre_write /\ last.pre_write > 0

(* C1: the units handed out by read() and dropped by discard(), in call    *)
(* order, followed by the units still readable, are exactly the units      *)
(* write() accepted, in order: nothing is lost, duplicated or reordered,   *)
(* and a read() of everything unread hands out all the remaining units.    *)
C1_RingFifo ==
    /\ consumed \o cb_contents = written
    /\ read(read_pointer, write_pointer, data, unread).out
           = Drop(written, Len(consumed))

(* Capacity 8: write A..F, read 4, write G..K, read 7 returns E..K. *)
C1_Witness ==
    /\ buffer_size = 8
    /\ last.op = "read"
    /\ pre_wrapped
    /\ last.out = <<5, 6, 7, 8, 9, 10, 11>>
    /\ consumed = <<1, 2, 3, 4, 5, 6, 7, 8, 9, 10, 11>>

(* C4: write(source) returns min(len(source), free space), stores exactly  *)
(* that prefix behind the data already unread, trips no assertion, and     *)
(* when len(source) >= free space the buffer is full afterwards:           *)
(* writable_ranges() is empty and a further non-empty write returns 0.     *)
C4_RingWriteResult ==
    last.op = "write" =>
        /\ last.ret = Min(last.n, buffer_size - pre_unread)
        /\ last.assert_ok
        /\ cb_contents = SubSeq(written, last.pre_consumed + 1,
                                last.pre_written + last.ret)
        /\ Len(written) = last.pre_written + last.ret
        /\ last.n >= buffer_size - pre_unread =>
              /\ writable_ranges(read_pointer, write_pointer) = <<>>
              /\ \A len \in 1..MaxLen :
                    write(read_pointer, write_pointer, data,
                          Source(len)).ret = 0

(* A short write that stored something, across the end of storage. *)
C4_Witness ==
    /\ last.op = "write"
    /\ last.n > last.ret
    /\ last.ret > 1
    /\ last.pre_read > 0
    /\ write_pointer < last.pre_write

(* C6: commit(n), for every n, returns min(n, total writable space) and    *)
(* never moves the write pointer onto or past the read pointer.            *)
C6_RingCommitClamped ==
    last.op = "commit" =>
        /\ last.ret = Min(last.n, last.pre_space)
        /\ last.assert_ok

(* C7 as stated: the unread units never exceed buffer_size - 1. *)
C7_UnreadBelowCapacity ==
    buffer_size >= 1 => unread <= buffer_size - 1

(* C7: the number of unread units never exceeds buffer_size.  (The array   *)
(* holds buffer_size + 1 objects, one of which is kept free.)              *)
C7_UnreadAtMostCapacity ==
    /\ unread <= buffer_size
    /\ Len(cb_contents) <= buffer_size

(* A full buffer whose data wraps around the end of storage. *)
C7_Witness ==
    /\ buffer_size >= 2
    /\ unread = buffer_size
    /\ read_pointer > write_pointer
    /\ write_pointer > 0

(* C8: read(destination) returns min(len(destination), unread units),      *)
(* copies the oldest that many units in order and removes exactly those;   *)
(* a return value below len(destination) leaves the buffer empty.          *)
C8_RingReadResult ==
    last.op = "read" =>
        /\ last.ret = Min(last.n, pre_unread)
        /\ last.out = SubSeq(written, last.pre_consumed + 1,
                             last.pre_consumed + last.ret)
        /\ cb_contents = Drop(written, last.pre_consumed + last.ret)
        /\ last.assert_ok
        /\ last.ret < last.n =>
              read_pointer = write_pointer /\ cb_contents = <<>>

(* A short read of data that wrapped around the end of storage. *)
C8_Witness ==
    /\ last.op = "read"
    /\ pre_wrapped
    /\ last.ret < last.n
    /\ last.ret > 2

(* C10: discard(n) returns min(n, unread units) and removes exactly that   *)
(* many of the oldest units; discard(unread + extra) returns unread and    *)
(* leaves the buffer empty.                                                *)
C10_RingDiscardResult ==
    last.op = "discard" =>
        /\ last.ret = Min(last.n, pre_unread)
        /\ cb_contents = Drop(written, last.pre_consumed + last.ret)
        /\ last.assert_ok
        /\ last.n >= pre_unread =>
              read_pointer = write_pointer /\ cb_contents = <<>>

(* discard(unread + extra) of data that wrapped around the end of storage. *)
C10_Witness ==
    /\ last.op = "discard"
    /\ pre_wrapped
    /\ last.n > pre_unread
    /\ last.ret = pre_unread
    /\ last.ret > 2

(* C14: clear() leaves the buffer empty with both pointers at the start of  *)
(* storage: readable_ranges() is empty, the writable space is the whole    *)
(* buffer_size, and the buffer takes and gives back data as a freshly      *)
(* constructed one does, whatever the storage held before.                 *)
C14_RingClear ==
    last.op = "clear" =>
        /\ read_pointer = 0
        /\ write_pointer = 0
        /\ readable_ranges(read_pointer, write_pointer) = <<>>
        /\ cb_contents = <<>>
        /\ cb_writable = buffer_size
        /\ \A len \in 0..MaxLen :
              LET w == write(read_pointer, write_pointer, data, Source(len))
              IN  /\ w.ret = Min(len, buffer_size)
                  /\ w.write_pointer = w.ret
                  /\ w.assert_ok
                  /\ read(read_pointer, w.write_pointer, w.data, len).out
                        = Prefix(Source(len), w.ret)

(* clear() of a full buffer whose data wrapped around the end of storage. *)
C14_Witness ==
    /\ last.op = "clear"
    /\ buffer_size >= 3
    /\ pre_wrapped
    /\ pre_unread = buffer_size

(* C16: a circular_buffer of capacity 0 is rejected when it is constructed, *)
(* so no circular_buffer that exists and takes calls has capacity 0: none  *)
(* is ever offered data it can never accept.                               *)
C16_ZeroCapacityRejected ==
    (is_circular /\ last.op = "write" /\ last.n > 0) => buffer_size > 0

(* C22: read_pointer = write_pointer exactly when nothing is unread; a     *)
(* full buffer has different pointers.                                     *)
C22_EmptyIffPointersEqual ==
    is_circular =>
        /\ (read_pointer = write_pointer) <=> (unread = 0)
        /\ (buffer_size > 0 /\ unread = buffer_size) =>
               read_pointer # write_pointer

(* A buffer that commit() filled to capacity, with data that wraps. *)
C22_Witness ==
    /\ is_circular
    /\ buffer_size >= 3
    /\ unread = buffer_size
    /\ write_pointer < read_pointer
    /\ write_pointer > 0
    /\ last.op = "commit"

(* C23: after every call both pointers are below data.end(), so the final  *)
(* assertion of discard() has held and that of readable_ranges() holds     *)
(* whenever it is called.                                                  *)
C23_PointersBelowEnd ==
    is_circular =>
        /\ read_pointer < array_size
        /\ write_pointer < array_size
        /\ last.assert_ok
        /\ read_pointer # write_pointer =>
               readable_ranges_end(read_pointer, write_pointer) < array_size

(* A discard that took read_pointer exactly to data.end(), from where it   *)
(* went back to the start, with wrapped data still unread.                 *)
C23_Witness ==
    /\ is_circular
    /\ last.op = "discard"
    /\ last.ret > 0
    /\ last.pre_read + last.ret = array_size
    /\ read_pointer = 0
    /\ write_pointer > 0

(* At most two spans, none empty, all inside the array; two spans are the  *)
(* one that runs to the end of the array and then the one that starts at   *)
(* its beginning, and they do not overlap.  The first span starts at ptr.  *)
range_shape(ranges, ptr) ==
    /\ Len(ranges) <= 2
    /\ \A k \in 1..Len(ranges) :
           /\ 0 <= ranges[k].from
           /\ ranges[k].from < ranges[k].to
           /\ ranges[k].to <= array_size
    /\ Len(ranges) >= 1 => ranges[1].from = ptr
    /\ Len(ranges) = 2 =>
           /\ ranges[1].to = array_size
           /\ ranges[2].from = 0
           /\ ranges[2].to <= ranges[1].from

(* The write pointer is one slot behind the read pointer, wrapping. *)
cb_full == (write_pointer + 1) % array_size = read_pointer

(* C24: writable_ranges() and readable_ranges() each return at most two    *)
(* non-empty, disjoint spans in logical order; in the full state           *)
(* writable_ranges() is empty and readable_ranges() covers every slot but  *)
(* the one at the write pointer.                                           *)
C24_RangeShape ==
    is_circular =>
        LET wr == writable_ranges(read_pointer, write_pointer)
            rd == readable_ranges(read_pointer, write_pointer)
            offs == ranges_offsets(rd)
        IN  /\ range_shape(wr, write_pointer)
            /\ range_shape(rd, read_pointer)
            /\ cb_full =>
                   /\ wr = <<>>
                   /\ {offs[i] : i \in 1..Len(offs)}
                          = (0..buffer_size) \ {write_pointer}
                   /\ Len(offs) = buffer_size

(* A buffer that a write filled to capacity, with data that wraps. *)
C24_Witness ==
    /\ is_circular
    /\ buffer_size >= 3
    /\ cb_full
    /\ Len(readable_ranges(read_pointer, write_pointer)) = 2
    /\ last.op = "write"
    /\ last.ret > 0

(* C25: the sizes of readable_ranges() and writable_ranges() always add up *)
(* to buffer_size, so an empty buffer offers buffer_size wherever its      *)
(* pointers stand.                                                         *)
C25_SpaceConservation ==
    is_circular =>
        /\ ranges_size(readable_ranges(read_pointer, write_pointer))
               + ranges_size(writable_ranges(read_pointer, write_pointer))
               = buffer_size
        /\ unread = 0 => cb_writable = buffer_size

(* A buffer emptied after more than its capacity went through it, with     *)
(* both pointers in the middle of the array.                               *)
C25_Witness ==
    /\ is_circular
    /\ buffer_size >= 3
    /\ unread = 0
    /\ Len(written) > buffer_size
    /\ read_pointer > 1
    /\ read_pointer < buffer_size
    /\ last.op = "read"

(***************************************************************************)
(* Properties of dynamic_buffer                                            *)
(***************************************************************************)

(* C2: the units handed out by read() and dropped by discard(), in call    *)
(* order, followed by the units still readable, are exactly the units      *)
(* written, in order, across extent growth and removal of front extents,   *)
(* and a read() of everything unread hands out all the remaining units.    *)
C2_DynamicFifo ==
    /\ consumed \o db_contents = written
    /\ db_read(extents, ext_write_pointer, unread).out
           = Drop(written, Len(consumed))

(* Extent size 4: write 10, read 4, read 4, write 4, read 6. *)
C2_Witness ==
    /\ extent_size = 4
    /\ last.op = "read"
    /\ last.n = 6
    /\ last.out = <<9, 10, 11, 12, 13, 14>>
    /\ consumed = <<1, 2, 3, 4, 5, 6, 7, 8, 9, 10, 11, 12, 13, 14>>
    /\ written = consumed

(* C3: write(source) returns len(source), and the unread data grows by     *)
(* exactly the units of source.                                            *)
C3_DynamicWriteFull ==
    last.op = "write" =>
        /\ last.ret = last.n
        /\ Len(written) = last.pre_written + last.n
        /\ db_contents = SubSeq(written, last.pre_consumed + 1,
                                last.pre_written + last.n)

(* A write larger than all the extents held before it, onto unread data. *)
C3_Witness ==
    /\ last.op = "write"
    /\ last.pre_read >= 1
    /\ pre_unread > 0
    /\ last.n > extent_size * (last.pre_read + 1)
    /\ last.ret = last.n

(* C5: commit(n), 1 <= n <= writable capacity of the extents from          *)
(* write_pointer to the back, returns n, makes n more units readable and   *)
(* trips none of its assertions.                                           *)
C5_DynamicCommitExact ==
    (last.op = "commit" /\ last.n >= 1) =>
        /\ last.ret = last.n
        /\ db_contents = SubSeq(written, last.pre_consumed + 1,
                                last.pre_written + last.n)
        /\ last.assert_ok

(* C9: read(destination) returns min(len(destination), unread units),      *)
(* copies the oldest that many units in order and removes exactly those;   *)
(* a return value below len(destination) leaves no extent with unread     *)
(* data.                                                                   *)
C9_DynamicReadResult ==
    last.op = "read" =>
        /\ last.ret = Min(last.n, pre_unread)
        /\ last.out = SubSeq(written, last.pre_consumed + 1,
                             last.pre_consumed + last.ret)
        /\ db_contents = Drop(written, last.pre_consumed + last.ret)
        /\ last.ret < last.n =>
              \A i \in 1..Len(extents) : read_window_size(extents[i]) = 0

(* A short read that drained more than two extents. *)
C9_Witness ==
    /\ last.op = "read"
    /\ last.ret < last.n
    /\ last.ret > 2 * extent_size
    /\ extent_size >= 2

(* C11: discard(n) returns min(n, unread units across all extents) and     *)
(* removes exactly that many of the oldest units, going on across extent   *)
(* boundaries; discard(unread + extra) returns unread.                     *)
C11_DynamicDiscardResult ==
    last.op = "discard" =>
        /\ last.ret = Min(last.n, pre_unread)
        /\ last.out = SubSeq(written, last.pre_consumed + 1,
                             last.pre_consumed + last.ret)
        /\ db_contents = Drop(written, last.pre_consumed + last.ret)
        /\ last.assert_ok

(* discard(unread + extra) of data held in more than two extents. *)
C11_Witness ==
    /\ last.op = "discard"
    /\ extent_size >= 2
    /\ last.n > pre_unread
    /\ last.ret = pre_unread
    /\ last.ret > 2 * extent_size

(* C17: when write() of a non-empty range or commit(n > 0) returns,        *)
(* write_pointer is the index of an extent and that extent has room left   *)
(* (stated for extents of two units or more, where minfree is not 0).      *)
C17_WritePointerHasRoom ==
    (minfree > 0 /\ last.op \in {"write", "commit"} /\ last.n > 0) =>
        /\ ext_write_pointer < Len(extents)
        /\ write_window_size(ext_at(extents, ext_write_pointer)) > 0

(* C18: writable_ranges() trips no assertion and leaves extents from       *)
(* write_pointer to the back that all have room, one region for each, of   *)
(* at least minfree units together (stated for extents of two units or     *)
(* more, where minfree is not 0).                                          *)
C18_WritableRangesUsable ==
    (minfree > 0 /\ last.op = "writable_ranges") =>
        /\ last.assert_ok
        /\ ext_write_pointer < Len(extents)
        /\ \A i \in ext_write_pointer..(Len(extents) - 1) :
               write_window_size(ext_at(extents, i)) > 0
        /\ last.ret = Len(extents) - ext_write_pointer
        /\ db_space >= minfree

(* C19: every extent after the one at write_pointer is completely empty:   *)
(* nothing written to it, nothing to read from it.                         *)
C19_EmptyAfterWritePointer ==
    \A i \in (ext_write_pointer + 1)..(Len(extents) - 1) :
        /\ write_window_size(ext_at(extents, i)) = extent_size
        /\ read_window_size(ext_at(extents, i)) = 0
        /\ ext_at(extents, i).wr = 0

(* A write that went through two extents and left a spare one behind. *)
C19_Witness ==
    /\ last.op = "write"
    /\ ext_write_pointer > last.pre_write
    /\ ext_write_pointer >= 1
    /\ Len(extents) > ext_write_pointer + 1

(* C20: every extent before the one at write_pointer has no room left, and *)
(* read() and discard() keep it so: each front extent they remove lowers   *)
(* write_pointer by one unless it is already 0.                            *)
C20_SpentBeforeWritePointer ==
    ~is_circular =>
        /\ ext_write_pointer <= Len(extents)
        /\ \A i \in 0..(ext_write_pointer - 1) :
               write_window_size(ext_at(extents, i)) = 0
        /\ last.op \in {"read", "discard"} =>
               LET removed == last.pre_read - Len(extents)
               IN  ext_write_pointer =
                       IF last.pre_write > removed
                           THEN last.pre_write - removed
                           ELSE 0

(* A read that removed a front extent while a spent extent with unread     *)
(* data still precedes write_pointer.                                      *)
C20_Witness ==
    /\ last.op = "read"
    /\ last.pre_read > Len(extents)
    /\ ext_write_pointer >= 1
    /\ read_window_size(ext_at(extents, 0)) > 0

(* An extent with nothing left to read and no room left to write. *)
dead(ext) == read_window_size(ext) = 0 /\ write_window_size(ext) = 0

(* C21: after every call no extent of the deque is dead; extents leave the *)
(* deque only in read() and discard(), only at the front and only once     *)
(* every unit of theirs is consumed, so what is left is still exactly the  *)
(* unread data; and the assertions of remove_front() hold.                 *)
C21_DeadExtentsEvicted ==
    ~is_circular =>
        /\ \A i \in 1..Len(extents) : ~dead(extents[i])
        /\ db_contents = Drop(written, Len(consumed))
        /\ last.op \in {"read", "discard"} =>
               LET removed == last.pre_read - Len(extents)
               IN  /\ last.assert_ok
                   /\ removed >= 0
                   /\ removed >= 1 =>
                          last.ret >= (removed - 1) * extent_size + 1
        /\ last.op \notin {"read", "discard"} =>
               Len(extents) >= last.pre_read

(* A discard that removed two extents and left others behind. *)
C21_Witness ==
    /\ last.op = "discard"
    /\ last.pre_read - Len(extents) >= 2
    /\ Len(extents) >= 2
    /\ unread > 0

(* C26: when nothing is unread the deque holds at most two extents: the    *)
(* one being written and at most one spare that is completely empty.       *)
C26_DrainedIsSmall ==
    (~is_circular /\ unread = 0) =>
        /\ Len(extents) <= 2
        /\ Len(extents) = 2 =>
               /\ extents[2].wr = 0
               /\ write_window_size(extents[2]) = extent_size

(* A buffer drained by a read after more than two extents' worth of data   *)
(* went through it, left with a part-used extent and a spare.              *)
C26_Witness ==
    /\ ~is_circular
    /\ extent_size >= 2
    /\ unread = 0
    /\ Len(written) > 2 * extent_size
    /\ Len(extents) = 2
    /\ extents[1].wr > 0
    /\ last.op = "read"
    /\ last.pre_read >= 3

(* The smallest number of extents that hold n units. *)
extents_for(n) == (n + extent_size - 1) \div extent_size

(* The passes of the loops of write(), read() and discard() stay within    *)
(* their bounds: extents_for(n) + 1 for write(n), one for each extent of   *)
(* the deque plus one for read() and discard().                            *)
loop_bounds ==
    /\ last.op = "write" => last.iters <= extents_for(last.n) + 1
    /\ last.op \in {"read", "discard"} => last.iters <= last.pre_read + 1

(* C27: every write(), commit(n) within the available space, read() and   *)
(* discard() gets to its return statement, after a bounded number of       *)
(* passes through its loop.                                                *)
C27_LoopsReturn ==
    ~is_circular =>
        /\ loop_bounds
        /\ last.op = "commit" =>
               /\ last.assert_ok
               /\ last.iters <= last.pre_read - last.pre_write

(***************************************************************************)
(* Properties of both buffer types                                         *)
(***************************************************************************)

(* What an operation leaves and returns, without its count of loop passes. *)
outcome(r) == [f \in DOMAIN r \ {"iters"} |-> r[f]]

(* C12: on a buffer with nothing unread, fresh or drained, read() returns  *)
(* 0, discard(n) returns 0 for every n, readable_ranges() is empty, no     *)
(* assertion trips and the state does not change.                          *)
C12_EmptyBuffer ==
    /\ (is_circular /\ unread = 0) =>
          /\ readable_ranges(read_pointer, write_pointer) = <<>>
          /\ \A n \in 0..MaxLen :
                /\ read(read_pointer, write_pointer, data, n)
                      = [out |-> <<>>, read_pointer |-> read_pointer,
                         ret |-> 0, assert_ok |-> TRUE]
                /\ discard(read_pointer, write_pointer, n)
                      = [read_pointer |-> read_pointer, ret |-> 0,
                         assert_ok |-> TRUE]
    /\ (~is_circular /\ unread = 0) =>
          /\ db_readable_ranges(extents) = <<>>
          /\ \A n \in 0..MaxDbLen :
                /\ outcome(db_read(extents, ext_write_pointer, n))
                      = [extents |-> extents,
                         write_pointer |-> ext_write_pointer,
                         ret |-> 0, out |-> <<>>, assert_ok |-> TRUE]
                /\ outcome(db_discard(extents, ext_write_pointer, n))
                      = [extents |-> extents,
                         write_pointer |-> ext_write_pointer,
                         ret |-> 0, out |-> <<>>, assert_ok |-> TRUE]
    /\ (last.op \in {"read", "discard"} /\ pre_unread = 0) =>
          /\ last.ret = 0
          /\ last.out = <<>>
          /\ last.assert_ok
          /\ unread = 0
          /\ is_circular => read_pointer = last.pre_read
          /\ ~is_circular => /\ Len(extents) = last.pre_read
                             /\ ext_write_pointer = last.pre_write

(* discard(n > 0) on a drained dynamic_buffer that still holds extents. *)
C12_Witness ==
    /\ ~is_circular
    /\ Len(extents) >= 2
    /\ consumed # <<>>
    /\ pre_unread = 0
    /\ last.op = "discard"
    /\ last.n > 0
    /\ last.ret = 0

(* C13: write(empty source), commit(0) and discard(0) return 0 and leave   *)
(* the whole buffer state unchanged.                                       *)
C13_ZeroSizeNoOp ==
    /\ is_circular =>
          /\ write(read_pointer, write_pointer, data, <<>>)
                = [data |-> data, write_pointer |-> write_pointer,
                   ret |-> 0, assert_ok |-> TRUE]
          /\ commit(read_pointer, write_pointer, 0)
                = [write_pointer |-> write_pointer, ret |-> 0,
                   assert_ok |-> TRUE]
          /\ discard(read_pointer, write_pointer, 0)
                = [read_pointer |-> read_pointer, ret |-> 0,
                   assert_ok |-> TRUE]
    /\ ~is_circular =>
          /\ outcome(db_write(extents, ext_write_pointer, <<>>))
                = [extents |-> extents, write_pointer |-> ext_write_pointer,
                   ret |-> 0, assert_ok |-> TRUE]
          /\ outcome(db_commit(extents, ext_write_pointer, 0))
                = [extents |-> extents, write_pointer |-> ext_write_pointer,
                   ret |-> 0, assert_ok |-> TRUE]
          /\ outcome(db_discard(extents, ext_write_pointer, 0))
                = [extents |-> extents, write_pointer |-> ext_write_pointer,
                   ret |-> 0, out |-> <<>>, assert_ok |-> TRUE]
    /\ (last.op \in {"write", "commit", "discard"} /\ last.n = 0) =>
          /\ last.ret = 0
          /\ last.assert_ok
          /\ Len(written) = last.pre_written
          /\ Len(consumed) = last.pre_consumed
          /\ is_circular => IF last.op = "discard"
                                THEN read_pointer = last.pre_read
                                ELSE write_pointer = last.pre_write
          /\ ~is_circular => /\ Len(extents) = last.pre_read
                             /\ ext_write_pointer = last.pre_write

(* discard(0) after a discard that left data behind, in a dynamic_buffer   *)
(* of several extents.                                                     *)
C13_Witness ==
    /\ ~is_circular
    /\ Len(extents) >= 2
    /\ consumed # <<>>
    /\ unread > 0
    /\ last.op = "discard"
    /\ last.n = 0

(* C15: the regions readable_ranges() returned stay good while only        *)
(* write(), commit() and writable_ranges() follow: every position in them  *)
(* still holds the same unit, and they are still the front of what         *)
(* readable_ranges() returns now.                                          *)
C15_ViewsSurviveWrites ==
    view.valid =>
        IF is_circular
            THEN LET offs == ranges_offsets(view.spans)
                     now == ranges_offsets(
                                readable_ranges(read_pointer, write_pointer))
                 IN  /\ [i \in 1..Len(offs) |-> data[offs[i]]] = view.units
                     /\ Len(offs) <= Len(now)
                     /\ offs = Prefix(now, Len(offs))
            ELSE LET offs == db_spans_offsets(view.spans)
                     now == db_spans_offsets(db_readable_spans(extents, 0))
                 IN  /\ \A i \in 1..Len(offs) :
                           /\ offs[i][1] < Len(extents)
                           /\ ext_at(extents, offs[i][1]).cells[offs[i][2]]
                                 = view.units[i]
                     /\ Len(offs) <= Len(now)
                     /\ offs = Prefix(now, Len(offs))

(* A view of wrapped data in a circular_buffer, after at least two more    *)
(* calls that added data.                                                  *)
C15_Witness ==
    /\ view.valid
    /\ is_circular
    /\ Len(view.spans) = 2
    /\ last.op = "commit"
    /\ last.n = 1
    /\ unread >= Len(view.units) + 2

====
